---- MODULE Spec2Model ----
(***************************************************************************)
(* The EmotionAwareLearning component (src/unnamed/part_001): the state    *)
(* held in its React hooks, its effects and its event handlers.            *)
(*                                                                         *)
(* Numbers.  The four scores are JavaScript numbers that need not be       *)
(* integers: the confidence is 100 - (frustration + stress) / 2 and the    *)
(* frustration seed is 0.8 * 100 * wrongCount / totalQuestions.  A score   *)
(* x is stored as the integer Scale * x, which is exact for halves and for *)
(* the thirds that a three-question assessment produces.  NaN (0 / 0) is a *)
(* value of its own.  Times are whole seconds.                             *)
(*                                                                         *)
(* Optional values (isCorrect?, timeSpent?, difficultyLevel?, a null       *)
(* lastResult, a null currentMessage) are sequences of length 0 or 1.      *)
(***************************************************************************)
EXTENDS Integers, Sequences, FiniteSets, TLC

VARIABLES
    phase,                \* "rendered": first render done, effects not yet run; "mounted" after
    lastResult,           \* the lastResult prop: <<>> (null) or <<r>>
    emotionalState,       \* useState, line 89
    activityLog,          \* useState, line 93
    currentMessage,       \* useState, line 94: <<>> (null) or <<m>>
    showBreakSuggestion,  \* useState, line 96
    suggestedDifficulty,  \* useState, line 97
    sessionStartTime,     \* useState, line 99
    consecutiveWrong,     \* useState, line 100
    totalTimeSpent,       \* useState, line 101
    now,                  \* Date.now(), in seconds
    lastStep,             \* what the last step did: its operation and the triggers it fired
    isListening,          \* VoiceService.isListening (voiceService.ts line 60)
    engine,               \* the SpeechRecognition session: "idle", "running" or "stopping"
    staleEnds,            \* end events of earlier sessions, queued and not yet delivered
    cooldownUntil,        \* VoiceService.cooldownUntil (line 64): <<>> (null) or <<t>>
    lastError,            \* VoiceService.lastError (line 63): <<>> (null) or <<status>>
    lastCall,             \* what the last call of the voice service did
    rateLimitedAt         \* when a call last failed with status 429: <<>> or <<t>>

vars == <<phase, lastResult, emotionalState, activityLog, currentMessage,
          showBreakSuggestion, suggestedDifficulty, sessionStartTime,
          consecutiveWrong, totalTimeSpent, now, lastStep,
          isListening, engine, staleEnds, cooldownUntil, lastError, lastCall,
          rateLimitedAt>>

\* the state of the EmotionAwareLearning component, but for the clock
componentVars ==
    <<phase, lastResult, emotionalState, activityLog, currentMessage,
      showBreakSuggestion, suggestedDifficulty, sessionStartTime,
      consecutiveWrong, totalTimeSpent, lastStep>>

\* the state of the voice service and of the engine it drives
voiceVars ==
    <<isListening, engine, staleEnds, cooldownUntil, lastError, lastCall,
      rateLimitedAt>>

\* ------------------------------------------------------------------ bounds

\* activities appended in a full session (Spec)
MaxLog == 2

\* long idle periods of a full session (Spec)
MaxIdles == 2

\* one-second timer ticks before the first activity (SpecSeed)
MaxTicks == 2

\* activities appended in a run of the four buttons (SpecAnswers)
MaxAnswers == 4

\* wrong answers appended in a row (SpecWrongRun)
MaxRun == 10

\* hint requests in a scored log (SpecScore)
MaxHints == 11

\* calls of simulateActivity with any arguments (SpecCalls)
MaxCalls == 3

\* activities of a log given to the scoring functions (SpecWindow)
MaxWindow == 6

\* activities appended in a session longer than the window of 10 (SpecRecency)
MaxHistory == 11

\* long pauses of a session with pauses (SpecIdle)
MaxPauses == 2

\* activities appended in a session with pauses (SpecIdle)
MaxActs == 3

\* quarters of a minute on the clock of the voice service (SpecVoice)
MaxClock == 3

\* end events of earlier recognition sessions still queued (SpecVoice)
MaxStale == 1

\* ------------------------------------------------------------------ numbers

Scale == 2 * 3

NaN == -1

Min(a, b) == IF a < b THEN a ELSE b

Max(a, b) == IF a > b THEN a ELSE b

\* slice(-n): the last n elements, or all of them
LastN(s, n) == IF Len(s) <= n THEN s ELSE SubSeq(s, Len(s) - n + 1, Len(s))

\* a score of n percent, as stored
Pct(n) == n * Scale

\* JavaScript truthiness of an optional number: undefined and 0 are falsy
Truthy(opt) == opt # <<>> /\ opt[1] # 0

\* a.timeSpent || 0
TimeOrZero(a) == IF Truthy(a.timeSpent) THEN a.timeSpent[1] ELSE 0

\* reduce((acc, a) => acc + (a.timeSpent || 0), 0)
RECURSIVE SumTimeSpent(_)
SumTimeSpent(s) ==
    IF s = <<>> THEN 0 ELSE TimeOrZero(Head(s)) + SumTimeSpent(Tail(s))

\* ------------------------------------------------------------------ seeding

NoResult == <<>>

\* mutant: the stress seed without its cap of 70
getInitialEmotionalStateUncapped(result) ==
    IF result = NoResult
    THEN [frustrationLevel |-> Pct(0), stressLevel |-> Pct(0),
          engagementLevel |-> Pct(100), confidenceLevel |-> Pct(70)]
    ELSE LET r == result[1]
             wrongPercentage ==
                 IF r.totalQuestions = 0 THEN NaN
                 ELSE (r.wrongCount * 100 * Scale) \div r.totalQuestions
             frustration ==
                 IF wrongPercentage = NaN THEN NaN
                 ELSE Min((wrongPercentage * 8) \div 10, Pct(80))
             stress == IF r.timeTaken > 45 THEN 50 + (r.timeTaken - 45) ELSE 30
         IN  [frustrationLevel |-> frustration, stressLevel |-> Pct(stress),
              engagementLevel |-> Pct(Max(40, Min(100, r.percentage + 20))),
              confidenceLevel |-> Pct(Max(20, Min(95, r.percentage)))]

\* lines 49-87.  questionResults is kept as its length (totalQuestions) and
\* the number of its entries with isCorrect false (wrongCount).  With no
\* question 0 / 0 is NaN, and Math.min(NaN, 80) is NaN.
getInitialEmotionalState(result) ==
    IF result = NoResult
    THEN [frustrationLevel |-> Pct(0), stressLevel |-> Pct(0),
          engagementLevel |-> Pct(100), confidenceLevel |-> Pct(70)]
    ELSE LET r == result[1]
             wrongCount == r.wrongCount
             totalQuestions == r.totalQuestions
             wrongPercentage ==
                 IF totalQuestions = 0 THEN NaN
                 ELSE (wrongCount * 100 * Scale) \div totalQuestions
             score == r.percentage
             frustration ==
                 IF wrongPercentage = NaN THEN NaN
                 ELSE Min((wrongPercentage * 8) \div 10, Pct(80))
             stress ==
                 IF r.timeTaken > 45
                 THEN Min(50 + (r.timeTaken - 45), 70)
                 ELSE 30
             engagement == Max(40, Min(100, score + 20))
             confidence == Max(20, Min(95, score))
         IN  [frustrationLevel |-> frustration, stressLevel |-> Pct(stress),
              engagementLevel |-> Pct(engagement), confidenceLevel |-> Pct(confidence)]

\* ------------------------------------------------------------------ scoring

IsWrongAnswer(a) ==
    a.activityType = "question_answered" /\ a.isCorrect # <<TRUE>>

\* mutant: the frustration score without its cap of 100
analyzeFrustrationUnclamped(activities) ==
    IF Len(activities) = 0 THEN 0
    ELSE LET recentActivities == LastN(activities, 10)
             timed == SelectSeq(recentActivities, LAMBDA a : Truthy(a.timeSpent))
         IN  Len(SelectSeq(recentActivities, IsWrongAnswer)) * 15
             + (IF SumTimeSpent(timed) > 120 * Len(recentActivities) THEN 20 ELSE 0)
             + Len(SelectSeq(recentActivities, LAMBDA a : a.activityType = "retry")) * 10

\* mutant: the whole log scored, not its last 10 activities
analyzeFrustrationWholeLog(activities) ==
    IF Len(activities) = 0 THEN 0
    ELSE LET recentActivities == activities
             wrongAnswers == Len(SelectSeq(recentActivities, IsWrongAnswer))
             timed == SelectSeq(recentActivities, LAMBDA a : Truthy(a.timeSpent))
             slow == SumTimeSpent(timed) > 120 * Len(recentActivities)
             retries == Len(SelectSeq(recentActivities, LAMBDA a : a.activityType = "retry"))
         IN  Min(wrongAnswers * 15 + (IF slow THEN 20 ELSE 0) + retries * 10, 100)

\* mutant: 10 per wrong answer
analyzeFrustrationTenPerMiss(activities) ==
    IF Len(activities) = 0 THEN 0
    ELSE LET recentActivities == LastN(activities, 10)
             wrongAnswers == Len(SelectSeq(recentActivities, IsWrongAnswer))
             timed == SelectSeq(recentActivities, LAMBDA a : Truthy(a.timeSpent))
             slow == SumTimeSpent(timed) > 120 * Len(recentActivities)
             retries == Len(SelectSeq(recentActivities, LAMBDA a : a.activityType = "retry"))
         IN  Min(wrongAnswers * 10 + (IF slow THEN 20 ELSE 0) + retries * 10, 100)

\* lines 154-181
analyzeFrustration(activities) ==
    IF Len(activities) = 0 THEN 0
    ELSE LET recentActivities == LastN(activities, 10)
             wrongAnswers == Len(SelectSeq(recentActivities, IsWrongAnswer))
             timed == SelectSeq(recentActivities, LAMBDA a : Truthy(a.timeSpent))
             \* avgTimeSpent > 120, the sum divided by the window's length
             slow == SumTimeSpent(timed) > 120 * Len(recentActivities)
             retries == Len(SelectSeq(recentActivities, LAMBDA a : a.activityType = "retry"))
         IN  Min(wrongAnswers * 15 + (IF slow THEN 20 ELSE 0) + retries * 10, 100)

\* mutant: rushing flagged whatever the number of activities
calculateStressRushingAnySize(activities, nowT, startT) ==
    LET elapsed == nowT - startT
        recent == LastN(activities, 5)
        recentHardQuestions ==
            Len(SelectSeq(recent, LAMBDA a : a.difficultyLevel \in {<<"Hard">>, <<"Expert">>}))
        rushing == Len(recent) > 0 /\ SumTimeSpent(recent) < 30 * Len(recent)
    IN  Min((IF elapsed > 45 * 60 THEN 30 ELSE 0)
            + (IF elapsed > 90 * 60 THEN 40 ELSE 0)
            + recentHardQuestions * 10
            + (IF rushing THEN 20 ELSE 0), 100)

\* lines 184-206; nowT and startT in seconds, so 45 minutes are 45 * 60
calculateStress(activities, nowT, startT) ==
    LET elapsed == nowT - startT
        recent == LastN(activities, 5)
        recentHardQuestions ==
            Len(SelectSeq(recent, LAMBDA a : a.difficultyLevel \in {<<"Hard">>, <<"Expert">>}))
        \* avgTime < 30; on an empty window 0 / 0 is NaN and NaN < 30 is false
        rushing == Len(recent) > 0 /\ SumTimeSpent(recent) < 30 * Len(recent)
    IN  Min((IF elapsed > 45 * 60 THEN 30 ELSE 0)
            + (IF elapsed > 90 * 60 THEN 40 ELSE 0)
            + recentHardQuestions * 10
            + (IF rushing /\ Len(recent) > 3 THEN 20 ELSE 0), 100)

\* mutant: idle from 180 seconds on, not after them
calculateEngagementIdleAt180(activities, nowT) ==
    IF Len(activities) = 0 THEN 100
    ELSE LET recentActivities == LastN(activities, 10)
             idle == nowT - recentActivities[Len(recentActivities)].timestamp >= 180
             hints == Len(SelectSeq(recentActivities,
                              LAMBDA a : a.activityType = "hint_requested"))
         IN  Max(100 - (IF idle THEN 40 ELSE 0) - hints * 8, 0)

\* mutant: idle measured between the last two activities
calculateEngagementIdleBetween(activities, nowT) ==
    IF Len(activities) = 0 THEN 100
    ELSE LET recentActivities == LastN(activities, 10)
             n == Len(recentActivities)
             idle == n > 1 /\ recentActivities[n].timestamp
                                - recentActivities[n - 1].timestamp > 180
             hints == Len(SelectSeq(recentActivities,
                              LAMBDA a : a.activityType = "hint_requested"))
         IN  Max(100 - (IF idle THEN 40 ELSE 0) - hints * 8, 0)

\* lines 209-230; 180000 ms are 180 seconds
calculateEngagement(activities, nowT) ==
    IF Len(activities) = 0 THEN 100
    ELSE LET recentActivities == LastN(activities, 10)
             lastActivity == recentActivities[Len(recentActivities)]
             idle == nowT - lastActivity.timestamp > 180
             hints == Len(SelectSeq(recentActivities,
                              LAMBDA a : a.activityType = "hint_requested"))
         IN  Max(100 - (IF idle THEN 40 ELSE 0) - hints * 8, 0)

\* mutant: the sum of frustration and stress not halved
confidenceNotHalved(frustration, stress) ==
    Max(0, Pct(100) - (frustration + stress))

\* line 239; frustration and stress are stored scores, whose sum is even
confidenceOf(frustration, stress) ==
    Max(0, Pct(100) - (frustration + stress) \div 2)

\* mutant: a confidence that never exceeds the seeded one
recomputeStateUnderSeed(activities, nowT, startT) ==
    LET frustration == Pct(analyzeFrustration(activities))
        stress == Pct(calculateStress(activities, nowT, startT))
        engagement == Pct(calculateEngagement(activities, nowT))
    IN  [frustrationLevel |-> frustration, stressLevel |-> stress,
         engagementLevel |-> engagement,
         confidenceLevel |->
             Min(confidenceOf(frustration, stress),
                 getInitialEmotionalState(lastResult).confidenceLevel)]

\* lines 233-246: the snapshot the activity-log effect stores
recomputeState(activities, nowT, startT) ==
    LET frustration == Pct(analyzeFrustration(activities))
        stress == Pct(calculateStress(activities, nowT, startT))
        engagement == Pct(calculateEngagement(activities, nowT))
    IN  [frustrationLevel |-> frustration, stressLevel |-> stress,
         engagementLevel |-> engagement,
         confidenceLevel |-> confidenceOf(frustration, stress)]

\* mutant: the motivation rule tried before the break rule
policyCategoryMotivationFirst(frustration, stress, engagement) ==
    IF frustration > Pct(40) THEN "motivation"
    ELSE IF frustration > Pct(60) \/ stress > Pct(70) THEN "break"
    ELSE IF engagement < Pct(50) THEN "guidance"
    ELSE "none"

\* mutant: the break rule with thresholds 80 and 90
policyCategoryBreakLate(frustration, stress, engagement) ==
    IF frustration > Pct(80) \/ stress > Pct(90) THEN "break"
    ELSE IF frustration > Pct(40) THEN "motivation"
    ELSE IF engagement < Pct(50) THEN "guidance"
    ELSE "none"

\* lines 248-256: the category the effect generates a message of, if any
policyCategory(frustration, stress, engagement) ==
    IF frustration > Pct(60) \/ stress > Pct(70) THEN "break"
    ELSE IF frustration > Pct(40) THEN "motivation"
    ELSE IF engagement < Pct(50) THEN "guidance"
    ELSE "none"

\* mutant: the Hard rule tried first
adjustDifficultyHardFirst(frustration, stress, confidence) ==
    IF confidence > Pct(80) /\ frustration < Pct(30) THEN "Hard"
    ELSE IF frustration > Pct(70) \/ stress > Pct(80) THEN "Easy"
    ELSE IF frustration > Pct(50) \/ stress > Pct(60) THEN "Medium"
    ELSE "Medium"

\* mutant: Hard from a confidence of 80 on
adjustDifficultyHardAt80(frustration, stress, confidence) ==
    IF frustration > Pct(70) \/ stress > Pct(80) THEN "Easy"
    ELSE IF frustration > Pct(50) \/ stress > Pct(60) THEN "Medium"
    ELSE IF confidence >= Pct(80) /\ frustration < Pct(30) THEN "Hard"
    ELSE "Medium"

\* lines 263-277
adjustDifficulty(frustration, stress, confidence) ==
    IF frustration > Pct(70) \/ stress > Pct(80) THEN "Easy"
    ELSE IF frustration > Pct(50) \/ stress > Pct(60) THEN "Medium"
    ELSE IF confidence > Pct(80) /\ frustration < Pct(30) THEN "Hard"
    ELSE "Medium"

\* lines 280-339: the message set; its text (one of five templates of the
\* category) is kept as the pool it is drawn from
generateEncouragementMessage(type) == <<[type |-> type, origin |-> "generated"]>>

\* ------------------------------------------------------------------ the voice service, constructed

\* voiceService.ts lines 60-69: the fields after the constructor, with a
\* recognition engine available and idle
VoiceInit ==
    /\ isListening = FALSE
    /\ engine = "idle"
    /\ staleEnds = 0
    /\ cooldownUntil = <<>>
    /\ lastError = <<>>
    /\ lastCall = [op |-> "constructor", startedOn |-> "none", sent |-> FALSE,
                   rateLimited |-> FALSE]
    /\ rateLimitedAt = <<>>

\* ------------------------------------------------------------------ effects

\* lines 106-138: the message and the break flag the lastResult effect sets
lastResultMessage(result) ==
    IF result = NoResult THEN <<>>
    ELSE LET score == result[1].percentage
         IN  IF score >= 80 THEN <<[type |-> "celebration", origin |-> "lastResult"]>>
             ELSE IF score >= 60 THEN <<[type |-> "motivation", origin |-> "lastResult"]>>
             ELSE <<[type |-> "guidance", origin |-> "lastResult"]>>

lastResultBreak(result) ==
    /\ result # NoResult
    /\ result[1].percentage < 60
    /\ result[1].timeTaken > 60

\* mutant: the handler's message kept when the effect's rule fires too
ActivityLogEffectKeepsEvent(activities, message, break, event, op) ==
    LET st == recomputeState(activities, now, sessionStartTime)
        category == policyCategory(st.frustrationLevel, st.stressLevel,
                                   st.engagementLevel)
    IN  /\ emotionalState' = st
        /\ showBreakSuggestion' = (IF category = "break" THEN TRUE ELSE break)
        /\ currentMessage' = (IF category = "none" \/ event # "none" THEN message
                              ELSE generateEncouragementMessage(category))
        /\ suggestedDifficulty' =
               adjustDifficulty(st.frustrationLevel, st.stressLevel,
                                st.confidenceLevel)
        /\ lastStep' = [op |-> op, event |-> event, policy |-> category]

\* lines 233-260: the activity-log effect, run on the log `activities` at
\* time now; message and break are what the handler before it left
ActivityLogEffect(activities, message, break, event, op) ==
    LET st == recomputeState(activities, now, sessionStartTime)
        category == policyCategory(st.frustrationLevel, st.stressLevel,
                                   st.engagementLevel)
    IN  /\ emotionalState' = st
        /\ showBreakSuggestion' = (IF category = "break" THEN TRUE ELSE break)
        /\ currentMessage' = (IF category = "none" THEN message
                              ELSE generateEncouragementMessage(category))
        /\ suggestedDifficulty' =
               adjustDifficulty(st.frustrationLevel, st.stressLevel,
                                st.confidenceLevel)
        /\ lastStep' = [op |-> op, event |-> event, policy |-> category]

\* ------------------------------------------------------------------ state

\* the state after the first render: the useState initial values
InitWith(results, logs, times) ==
    /\ phase = "rendered"
    /\ lastResult \in results
    /\ emotionalState = getInitialEmotionalState(lastResult)
    /\ activityLog \in logs
    /\ currentMessage = <<>>
    /\ showBreakSuggestion = FALSE
    /\ suggestedDifficulty = "Medium"
    /\ sessionStartTime = 0
    /\ consecutiveWrong = 0
    /\ totalTimeSpent = 0
    /\ now \in times
    /\ lastStep = [op |-> "render", event |-> "none", policy |-> "none"]
    /\ VoiceInit

\* the effects of the first commit, in the order they are declared: the
\* lastResult effect (106-138), the timer (141-151, which only starts the
\* interval), the activity-log effect (233-260)
Mount ==
    /\ phase = "rendered"
    /\ phase' = "mounted"
    /\ ActivityLogEffect(activityLog, lastResultMessage(lastResult),
                         lastResultBreak(lastResult), "none", "mount")
    /\ UNCHANGED <<lastResult, activityLog, sessionStartTime, consecutiveWrong,
                   totalTimeSpent, now,
                   voiceVars>>

\* mutant: a correct answer does not reset the counter
nextConsecutiveWrongNoReset(prev, activityType, isCorrect) ==
    IF activityType # "question_answered" THEN prev
    ELSE IF isCorrect = <<TRUE>> THEN prev
    ELSE prev + 1

\* lines 358-370: the counter after the handler
nextConsecutiveWrong(prev, activityType, isCorrect) ==
    IF activityType # "question_answered" THEN prev
    ELSE IF isCorrect = <<TRUE>> THEN 0
    ELSE prev + 1

\* mutant: the motivation message from the second miss in a row on
eventCategoryAtSecondMiss(prev, activityType, isCorrect, celebrate) ==
    IF activityType # "question_answered" THEN "none"
    ELSE IF isCorrect = <<TRUE>> THEN (IF celebrate THEN "celebration" ELSE "none")
    ELSE IF prev >= 1 THEN "motivation"
    ELSE "none"

\* lines 358-370: the category of the message the handler generates, if
\* any; celebrate is Math.random() > 0.7, and prev the consecutiveWrong of
\* the render the handler was created in
eventCategory(prev, activityType, isCorrect, celebrate) ==
    IF activityType # "question_answered" THEN "none"
    ELSE IF isCorrect = <<TRUE>> THEN (IF celebrate THEN "celebration" ELSE "none")
    ELSE IF prev >= 2 THEN "motivation"
    ELSE "none"

\* mutant: the new activity put in front of the log
prependActivity(prev, newActivity) == <<newActivity>> \o prev

\* line 356: [...prev, newActivity]
appendActivity(prev, newActivity) == Append(prev, newActivity)

\* lines 342-371, followed by the activity-log effect its setActivityLog
\* triggers.  timeSpent, difficultyLevel and celebrate are the handler's
\* three Math.random() draws.
simulateActivity(activityType, isCorrect, timeSpent, difficultyLevel, celebrate) ==
    LET newActivity == [timestamp |-> now, activityType |-> activityType,
                        isCorrect |-> isCorrect, timeSpent |-> <<timeSpent>>,
                        difficultyLevel |-> <<difficultyLevel>>]
        event == eventCategory(consecutiveWrong, activityType, isCorrect, celebrate)
        message == IF event = "none" THEN currentMessage
                   ELSE generateEncouragementMessage(event)
    IN  /\ phase = "mounted"
        /\ activityLog' = appendActivity(activityLog, newActivity)
        /\ consecutiveWrong' =
               nextConsecutiveWrong(consecutiveWrong, activityType, isCorrect)
        /\ ActivityLogEffect(activityLog', message, showBreakSuggestion, event,
                             "simulateActivity")
        /\ UNCHANGED <<phase, lastResult, sessionStartTime, totalTimeSpent, now,
                   voiceVars>>

\* lines 374-381; the button is rendered only with a message and the flag (712-716)
takeBreak ==
    /\ phase = "mounted"
    /\ currentMessage # <<>>
    /\ showBreakSuggestion
    /\ showBreakSuggestion' = FALSE
    /\ currentMessage' = <<[type |-> "break", origin |-> "takeBreak"]>>
    /\ lastStep' = [op |-> "takeBreak", event |-> "none", policy |-> "none"]
    /\ UNCHANGED <<phase, lastResult, emotionalState, activityLog,
                   suggestedDifficulty, sessionStartTime, consecutiveWrong,
                   totalTimeSpent, now,
                   voiceVars>>

\* mutant: a dismissal that also resets the counter of wrong answers
dismissMessageAndCounter ==
    /\ phase = "mounted"
    /\ currentMessage # <<>>
    /\ currentMessage' = <<>>
    /\ showBreakSuggestion' = FALSE
    /\ consecutiveWrong' = 0
    /\ lastStep' = [op |-> "dismissMessage", event |-> "none", policy |-> "none"]
    /\ UNCHANGED <<phase, lastResult, emotionalState, activityLog,
                   suggestedDifficulty, sessionStartTime, totalTimeSpent, now,
                   voiceVars>>

\* lines 384-387; its buttons are rendered only with a message (690, 705-710)
dismissMessage ==
    /\ phase = "mounted"
    /\ currentMessage # <<>>
    /\ currentMessage' = <<>>
    /\ showBreakSuggestion' = FALSE
    /\ lastStep' = [op |-> "dismissMessage", event |-> "none", policy |-> "none"]
    /\ UNCHANGED <<phase, lastResult, emotionalState, activityLog,
                   suggestedDifficulty, sessionStartTime, consecutiveWrong,
                   totalTimeSpent, now,
                   voiceVars>>

\* mutant: a tick that shows the greeting of the last result again
timerTicksGreetingAgain(seconds) ==
    /\ phase = "mounted"
    /\ now' = now + seconds
    /\ totalTimeSpent' = totalTimeSpent + seconds
    /\ currentMessage' = lastResultMessage(lastResult)
    /\ lastStep' = [op |-> "tick", event |-> "none", policy |-> "none"]
    /\ UNCHANGED <<phase, lastResult, emotionalState, activityLog,
                   showBreakSuggestion, suggestedDifficulty, sessionStartTime,
                   consecutiveWrong,
                   voiceVars>>

\* lines 142-144: the interval's callback, fired `seconds` times as that
\* many seconds pass
timerTicks(seconds) ==
    /\ phase = "mounted"
    /\ now' = now + seconds
    /\ totalTimeSpent' = totalTimeSpent + seconds
    /\ lastStep' = [op |-> "tick", event |-> "none", policy |-> "none"]
    /\ UNCHANGED <<phase, lastResult, emotionalState, activityLog, currentMessage,
                   showBreakSuggestion, suggestedDifficulty, sessionStartTime,
                   consecutiveWrong,
                   voiceVars>>

\* ------------------------------------------------------------------ inputs

\* the four demo buttons (lines 796-816): activityType and isCorrect
Buttons ==
    { <<"question_answered", <<TRUE>>>>, <<"question_answered", <<FALSE>>>>,
      <<"hint_requested", <<>>>>, <<"retry", <<>>>> }

\* Math.floor(Math.random() * 180) + 30 lies in 30..209: its two ends
TimeSpents == {30, 209}

\* a prior assessment
Assessment(p, w, t, m) ==
    <<[percentage |-> p, wrongCount |-> w, totalQuestions |-> t, timeTaken |-> m]>>

\* an idle period that takes a fresh session past 45 minutes, two past 90
LongIdle == 45 * 60 + 1

\* ------------------------------------------------------------------ a full session

\* no prior assessment; a good one (90 %, 1 wrong of 10, 50 minutes); a
\* failed, slow one (50 %, 2 wrong of 3, 61 minutes)
Init ==
    InitWith({NoResult, Assessment(90, 1, 10, 50), Assessment(50, 2, 3, 61)},
             {<<>>}, {0})

Idle ==
    /\ totalTimeSpent < MaxIdles * LongIdle
    /\ timerTicks(LongIdle)

SimulateActivity ==
    /\ Len(activityLog) < MaxLog
    /\ \E b \in Buttons, d \in {"Easy", "Hard"}, celebrate \in BOOLEAN :
           simulateActivity(b[1], b[2], 30, d, celebrate)

Next ==
    \/ Mount
    \/ SimulateActivity
    \/ takeBreak
    \/ dismissMessage
    \/ Idle

Spec == Init /\ [][Next]_vars

\* ------------------------------------------------------------------ before the first activity

Scores == {0, 10, 20, 59, 60, 79, 80, 90, 95, 100}

QuestionCounts == {0, 3, 10}

TimesTaken == {30, 45, 46, 50, 60, 61, 65, 66, 80}

Assessments ==
    UNION { { Assessment(p, w, t, m) : p \in Scores, w \in 0..t, m \in TimesTaken }
            : t \in QuestionCounts }

InitSeed == InitWith({NoResult} \cup Assessments, {<<>>}, {0})

Tick ==
    /\ totalTimeSpent < MaxTicks
    /\ timerTicks(1)

NextSeed ==
    \/ Mount
    \/ takeBreak
    \/ dismissMessage
    \/ Tick

SpecSeed == InitSeed /\ [][NextSeed]_vars

\* ------------------------------------------------------------------ runs of answers

InitAnswers == InitWith({NoResult}, {<<>>}, {0})

Answer ==
    /\ Len(activityLog) < MaxAnswers
    /\ \E b \in Buttons, t \in TimeSpents, celebrate \in BOOLEAN :
           simulateActivity(b[1], b[2], t, "Easy", celebrate)

NextAnswers ==
    \/ Mount
    \/ Answer

SpecAnswers == InitAnswers /\ [][NextAnswers]_vars

WrongAnswer ==
    /\ Len(activityLog) < MaxRun
    /\ \E t \in TimeSpents :
           simulateActivity("question_answered", <<FALSE>>, t, "Easy", FALSE)

NextWrongRun ==
    \/ Mount
    \/ WrongAnswer

SpecWrongRun == InitAnswers /\ [][NextWrongRun]_vars

\* ------------------------------------------------------------------ the difficulty rules alone

\* adjustDifficulty applied to a triple of scores, of which the component
\* itself only passes those with confidence = confidenceOf(frustration, stress)
Levels == {0, 20, 29, 30, 31, 50, 51, 60, 61, 70, 71, 75, 80, 81, 85, 90, 100}

InitPolicy ==
    /\ phase = "triple"
    /\ lastResult = NoResult
    /\ emotionalState \in
           { [frustrationLevel |-> Pct(f), stressLevel |-> Pct(s),
              engagementLevel |-> Pct(100), confidenceLevel |-> Pct(c)]
             : f \in Levels, s \in Levels, c \in Levels }
    /\ activityLog = <<>>
    /\ currentMessage = <<>>
    /\ showBreakSuggestion = FALSE
    /\ suggestedDifficulty = "Medium"
    /\ sessionStartTime = 0
    /\ consecutiveWrong = 0
    /\ totalTimeSpent = 0
    /\ now = 0
    /\ lastStep = [op |-> "render", event |-> "none", policy |-> "none"]
    /\ VoiceInit

AdjustDifficulty ==
    /\ phase = "triple"
    /\ phase' = "adjusted"
    /\ suggestedDifficulty' =
           adjustDifficulty(emotionalState.frustrationLevel,
                            emotionalState.stressLevel,
                            emotionalState.confidenceLevel)
    /\ lastStep' = [op |-> "adjustDifficulty", event |-> "none", policy |-> "none"]
    /\ UNCHANGED <<lastResult, emotionalState, activityLog, currentMessage,
                   showBreakSuggestion, sessionStartTime, consecutiveWrong,
                   totalTimeSpent, now,
                   voiceVars>>

SpecPolicy == InitPolicy /\ [][AdjustDifficulty]_vars

\* ------------------------------------------------------------------ the scores of a given log

\* an activity as an integration may log it (LearningActivity, lines 29-35)
Activity(type, timestamp) ==
    [timestamp |-> timestamp, activityType |-> type, isCorrect |-> <<>>,
     timeSpent |-> <<>>, difficultyLevel |-> <<>>]

Repeat(a, n) == [i \in 1..n |-> a]

\* logs of h hint requests and c other activities, the hints first or last,
\* all timestamped 1000
ScoredLogs ==
    UNION { { Repeat(Activity("hint_requested", 1000), h)
                  \o Repeat(Activity("time_spent", 1000), c),
              Repeat(Activity("time_spent", 1000), c)
                  \o Repeat(Activity("hint_requested", 1000), h) }
            : h \in 0..MaxHints, c \in 0..3 }

\* the activity-log effect run on a given log, 0, 180, 181 or 200 seconds
\* after its last activity
InitScore == InitWith({NoResult}, ScoredLogs, {1000, 1180, 1181, 1200})

SpecScore == InitScore /\ [][Mount]_vars

\* ------------------------------------------------------------------ any call of the handler

\* the values of LearningActivity["activityType"]
ActivityTypes == {"question_answered", "time_spent", "hint_requested", "retry"}

\* the values of the optional parameter isCorrect?: boolean
OptionalBooleans == {<<>>, <<TRUE>>, <<FALSE>>}

InitCalls == InitWith({NoResult}, {<<>>}, {0})

\* simulateActivity called with any arguments its signature admits
Call ==
    /\ Len(activityLog) < MaxCalls
    /\ \E type \in ActivityTypes, isCorrect \in OptionalBooleans,
          celebrate \in BOOLEAN :
           simulateActivity(type, isCorrect, 30, "Easy", celebrate)

NextCalls ==
    \/ Mount
    \/ Call

SpecCalls == InitCalls /\ [][NextCalls]_vars

\* ------------------------------------------------------------------ scores of a given log, by time and difficulty

\* a time_spent activity of a given optional timeSpent and difficultyLevel
Timed(timeSpent, difficultyLevel) ==
    [timestamp |-> 0, activityType |-> "time_spent", isCorrect |-> <<>>,
     timeSpent |-> timeSpent, difficultyLevel |-> difficultyLevel]

\* a slow hard one, an expert one without timeSpent, a quick easy one, and
\* one of exactly 30 seconds without difficultyLevel
WindowActivities ==
    { Timed(<<200>>, <<"Hard">>), Timed(<<>>, <<"Expert">>),
      Timed(<<10>>, <<"Easy">>), Timed(<<30>>, <<>>) }

WindowLogs == UNION { [1..n -> WindowActivities] : n \in 0..MaxWindow }

\* 45 and 90 minutes after the session's start, and a second later
WindowTimes == {45 * 60, 45 * 60 + 1, 90 * 60, 90 * 60 + 1}

\* the activity-log effect run on a given log at a given time
InitWindow == InitWith({NoResult}, WindowLogs, WindowTimes)

SpecWindow == InitWindow /\ [][Mount]_vars

\* ------------------------------------------------------------------ a session longer than the window

InitRecency == InitWith({NoResult}, {<<>>}, {0})

\* a correct answer in 30 seconds
Recover ==
    /\ Len(activityLog) < MaxHistory
    /\ simulateActivity("question_answered", <<TRUE>>, 30, "Easy", FALSE)

\* a retry that takes 209 seconds
SlowRetry ==
    /\ Len(activityLog) < MaxHistory
    /\ simulateActivity("retry", <<>>, 209, "Easy", FALSE)

\* the session's one wrong answer
OneWrongAnswer ==
    /\ Len(activityLog) < MaxHistory
    /\ \A i \in DOMAIN activityLog : ~IsWrongAnswer(activityLog[i])
    /\ simulateActivity("question_answered", <<FALSE>>, 30, "Easy", FALSE)

NextRecency ==
    \/ Mount
    \/ Recover
    \/ SlowRetry
    \/ OneWrongAnswer

SpecRecency == InitRecency /\ [][NextRecency]_vars

\* ------------------------------------------------------------------ a session with pauses

\* without a prior assessment, and after a failed, slow one
InitIdle == InitWith({NoResult, Assessment(50, 2, 3, 61)}, {<<>>}, {0})

\* nothing happens for 45 minutes and a second
Pause ==
    /\ totalTimeSpent < MaxPauses * LongIdle
    /\ timerTicks(LongIdle)

\* one of the four buttons, on a Hard question
Act ==
    /\ Len(activityLog) < MaxActs
    /\ \E b \in Buttons : simulateActivity(b[1], b[2], 30, "Hard", FALSE)

NextIdle ==
    \/ Mount
    \/ Pause
    \/ Act

SpecIdle == InitIdle /\ [][NextIdle]_vars

\* ------------------------------------------------------------------ the voice service

\* the record of a call: its name, the engine's state when it invoked
\* recognition.start() ("none" if it did not), whether it sent a request to
\* the AI API, and whether a call had failed with status 429 less than 30
\* seconds before it
Called(op, startedOn, sent) ==
    [op |-> op, startedOn |-> startedOn, sent |-> sent,
     rateLimited |-> (rateLimitedAt # <<>> /\ now - rateLimitedAt[1] < 30)]

\* voiceService.ts lines 94-150, recognition being available.  start() on a
\* session that has not ended yet throws InvalidStateError in some engines
\* (the session is left as it is) and starts a session in others (the end
\* event of the earlier one is still to come); isListening is set before.
startListening ==
    /\ IF isListening
       THEN /\ lastCall' = Called("startListening", "none", FALSE)
            /\ UNCHANGED <<isListening, engine, staleEnds>>
       ELSE /\ isListening' = TRUE
            /\ lastCall' = Called("startListening", engine, FALSE)
            /\ \/ /\ engine = "idle"
                  /\ engine' = "running"
                  /\ UNCHANGED staleEnds
               \/ /\ engine # "idle"
                  /\ UNCHANGED <<engine, staleEnds>>
               \/ /\ engine = "stopping"
                  /\ staleEnds < MaxStale
                  /\ engine' = "running"
                  /\ staleEnds' = staleEnds + 1
    /\ UNCHANGED <<cooldownUntil, lastError, rateLimitedAt, now, componentVars>>

\* lines 155-160: recognition.stop() and the flag cleared at once
stopListening ==
    /\ IF isListening
       THEN /\ engine' = (IF engine = "running" THEN "stopping" ELSE engine)
            /\ isListening' = FALSE
       ELSE UNCHANGED <<engine, isListening>>
    /\ lastCall' = Called("stopListening", "none", FALSE)
    /\ UNCHANGED <<staleEnds, cooldownUntil, lastError, rateLimitedAt, now,
                   componentVars>>

\* the engine ends a running session by itself (silence, an error)
engineStops ==
    /\ engine = "running"
    /\ engine' = "stopping"
    /\ UNCHANGED <<isListening, staleEnds, cooldownUntil, lastError, lastCall,
                   rateLimitedAt, now, componentVars>>

\* lines 144-147: the end event of the current session, and onend
onend ==
    /\ engine = "stopping"
    /\ engine' = "idle"
    /\ isListening' = FALSE
    /\ UNCHANGED <<staleEnds, cooldownUntil, lastError, lastCall, rateLimitedAt,
                   now, componentVars>>

\* lines 144-147: the end event of an earlier session, and onend
onendOfEarlierSession ==
    /\ staleEnds > 0
    /\ staleEnds' = staleEnds - 1
    /\ isListening' = FALSE
    /\ UNCHANGED <<engine, cooldownUntil, lastError, lastCall, rateLimitedAt,
                   now, componentVars>>

\* the statuses a request to the AI API ends with: 200, rate-limited, failed
Statuses == {200, 429, 500}

\* a request sent, answered with `status`, by a call that on a failure keeps
\* the error (keeps) and on a 429 sets the cooldown
Request(op, status, keeps) ==
    /\ lastCall' = Called(op, "none", TRUE)
    /\ rateLimitedAt' = (IF status = 429 THEN <<now>> ELSE rateLimitedAt)
    /\ lastError' = (IF keeps /\ status # 200 THEN <<status>> ELSE lastError)
    /\ cooldownUntil' = (IF keeps /\ status = 429 THEN <<now + 30>>
                         ELSE cooldownUntil)

\* lines 371-407, with an API key
testApi ==
    /\ IF cooldownUntil # <<>> /\ now < cooldownUntil[1]
       THEN /\ lastCall' = Called("testApi", "none", FALSE)
            /\ UNCHANGED <<cooldownUntil, lastError, rateLimitedAt>>
       ELSE \E status \in Statuses : Request("testApi", status, TRUE)
    /\ UNCHANGED <<isListening, engine, staleEnds, now, componentVars>>

\* lines 233-257, with an API key
processVoiceCommand ==
    /\ \E status \in Statuses : Request("processVoiceCommand", status, TRUE)
    /\ UNCHANGED <<isListening, engine, staleEnds, now, componentVars>>

\* lines 196-228, with an API key: the catch block only rethrows
generateAudioExplanation ==
    /\ \E status \in Statuses : Request("generateAudioExplanation", status, FALSE)
    /\ UNCHANGED <<isListening, engine, staleEnds, now, componentVars>>

\* lines 310-338, with an API key: the catch block only returns []
getVoiceCommandSuggestions ==
    /\ \E status \in Statuses : Request("getVoiceCommandSuggestions", status, FALSE)
    /\ UNCHANGED <<isListening, engine, staleEnds, now, componentVars>>

\* lines 409-414: the seconds left of the cooldown, rounded up
getCooldownRemaining ==
    IF cooldownUntil = <<>> THEN 0
    ELSE IF cooldownUntil[1] - now > 0 THEN cooldownUntil[1] - now
    ELSE 0

\* a quarter of a minute passes
timePasses ==
    /\ now < MaxClock * 15
    /\ now' = now + 15
    /\ UNCHANGED <<voiceVars, componentVars>>

InitVoice == InitWith({NoResult}, {<<>>}, {0})

NextVoice ==
    \/ startListening
    \/ stopListening
    \/ engineStops
    \/ onend
    \/ onendOfEarlierSession
    \/ testApi
    \/ processVoiceCommand
    \/ generateAudioExplanation
    \/ getVoiceCommandSuggestions
    \/ timePasses

SpecVoice == InitVoice /\ [][NextVoice]_vars

\* ------------------------------------------------------------------ claims

frustration == emotionalState.frustrationLevel

stress == emotionalState.stressLevel

engagement == emotionalState.engagementLevel

confidence == emotionalState.confidenceLevel

MessageType == IF currentMessage = <<>> THEN "none" ELSE currentMessage[1].type

InRange(x) == x >= Pct(0) /\ x <= Pct(100)

Clamp(x, lo, hi) == IF x < lo THEN lo ELSE IF x > hi THEN hi ELSE x

IsWrong(a) == a.activityType = "question_answered" /\ a.isCorrect = <<FALSE>>

IsCorrect(a) == a.activityType = "question_answered" /\ a.isCorrect = <<TRUE>>

AllWrong(log) == \A i \in DOMAIN log : IsWrong(log[i])

\* the sum of the timeSpent of a log whose activities all have one
RECURSIVE TotalTime(_)
TotalTime(log) ==
    IF log = <<>> THEN 0
    ELSE log[Len(log)].timeSpent[1] + TotalTime(SubSeq(log, 1, Len(log) - 1))

\* "w", "c" or "o" for each activity: a wrong answer, a correct one, another
Kinds(log) ==
    [i \in DOMAIN log |->
        IF IsWrong(log[i]) THEN "w" ELSE IF IsCorrect(log[i]) THEN "c" ELSE "o"]

\* the incorrect answers since the most recent correct one
RECURSIVE WrongSinceCorrect(_)
WrongSinceCorrect(log) ==
    IF log = <<>> THEN 0
    ELSE LET last == log[Len(log)]
             front == SubSeq(log, 1, Len(log) - 1)
         IN  IF IsCorrect(last) THEN 0
             ELSE IF IsWrong(last) THEN 1 + WrongSinceCorrect(front)
             ELSE WrongSinceCorrect(front)

HintsInLastTen(log) ==
    Cardinality({i \in DOMAIN log :
                    i > Len(log) - 10 /\ log[i].activityType = "hint_requested"})

\* C1: in every reachable state, initial or after any activity, each of the
\* four scores lies in [0, 100].  It fails in the initial state of a session
\* seeded from an assessment without questions, whose frustration is NaN.
C1_RangeInvariant ==
    /\ InRange(frustration)
    /\ InRange(stress)
    /\ InRange(engagement)
    /\ InRange(confidence)

\* C2, as stated: in every reachable state, the initial one included,
\* confidence = max(0, 100 - (frustration + stress) / 2).
C2_ConfidenceAlways ==
    2 * confidence = Max(0, 2 * Pct(100) - (frustration + stress))

\* C2, amended: the equality holds in every state from the mount-time
\* recomputation on.
C2_ConfidenceAfterRecompute ==
    phase = "mounted" => C2_ConfidenceAlways

\* a recomputed state whose frustration + stress is odd: confidence 92.5
C2_Witness ==
    /\ phase = "mounted"
    /\ activityLog # <<>>
    /\ frustration = Pct(15)
    /\ stress = Pct(0)
    /\ 2 * confidence = Pct(185)

\* C3: with no prior assessment and an empty log the state is 0, 0, 100, 70
\* at any time before the first activity, the mount-time recomputation
\* included.
C3_EmptyLogDefaults ==
    (lastResult = NoResult /\ activityLog = <<>>) =>
        emotionalState = [frustrationLevel |-> Pct(0), stressLevel |-> Pct(0),
                          engagementLevel |-> Pct(100), confidenceLevel |-> Pct(70)]

\* C4: with a prior assessment the state equals the seeded values in every
\* state until the first activity is appended.
C4_SeedPersistence ==
    (lastResult # NoResult /\ activityLog = <<>>) =>
        emotionalState = getInitialEmotionalState(lastResult)

\* C5: for a prior assessment with questions the seeded state is
\* frustration = min(80, 0.8 * 100 * wrongCount / totalQuestions),
\* stress = 30 up to 45 minutes and min(70, 50 + (timeTaken - 45)) beyond,
\* engagement = clamp(score + 20, 40, 100), confidence = clamp(score, 20, 95).
C5_SeedingFormulas ==
    (phase = "rendered" /\ lastResult # NoResult /\ lastResult[1].totalQuestions > 0) =>
        LET r == lastResult[1]
        IN  /\ frustration * 10 * r.totalQuestions
                   = Min(Pct(80) * 10 * r.totalQuestions, 8 * 100 * r.wrongCount * Scale)
            /\ stress = Pct(IF r.timeTaken <= 45 THEN 30
                            ELSE Min(70, 50 + (r.timeTaken - 45)))
            /\ engagement = Pct(Clamp(r.percentage + 20, 40, 100))
            /\ confidence = Pct(Clamp(r.percentage, 20, 95))

\* score 90, 1 wrong of 10, 50 minutes: 8, 55, 100, 90
C5_Witness ==
    /\ phase = "rendered"
    /\ lastResult = Assessment(90, 1, 10, 50)
    /\ emotionalState = [frustrationLevel |-> Pct(8), stressLevel |-> Pct(55),
                          engagementLevel |-> Pct(100), confidenceLevel |-> Pct(90)]

\* C6, as stated: after N wrong answers in a row from an empty log,
\* 1 <= N <= 10, frustration = min(15 * N, 100).
C6_FifteenPerWrongAnswer ==
    (phase = "mounted" /\ Len(activityLog) \in 1..10 /\ AllWrong(activityLog)) =>
        frustration = Pct(Min(15 * Len(activityLog), 100))

\* C6, amended: frustration = min(15 * N, 100) when the mean timeSpent of
\* the N activities is at most 120 seconds, and min(15 * N + 20, 100) when
\* it is more.
C6_WrongAnswersAndTimeBonus ==
    (phase = "mounted" /\ Len(activityLog) \in 1..10 /\ AllWrong(activityLog)) =>
        LET n == Len(activityLog)
        IN  IF TotalTime(activityLog) <= 120 * n
            THEN frustration = Pct(Min(15 * n, 100))
            ELSE frustration = Pct(Min(15 * n + 20, 100))

\* three slow wrong answers: 45 + 20
C6_Witness ==
    /\ Len(activityLog) = 3
    /\ AllWrong(activityLog)
    /\ TotalTime(activityLog) > 120 * 3
    /\ frustration = Pct(65)

\* C7: the suggested difficulty is the result of the first matching rule
\* among Easy (frustration > 70 or stress > 80), Medium (frustration > 50 or
\* stress > 60), Hard (confidence > 80 and frustration < 30), Medium; it is
\* always one of Easy, Medium, Hard.
C7_DifficultyRuleOrder ==
    phase = "adjusted" =>
        LET easy == frustration > Pct(70) \/ stress > Pct(80)
            medium == frustration > Pct(50) \/ stress > Pct(60)
            hard == confidence > Pct(80) /\ frustration < Pct(30)
        IN  /\ suggestedDifficulty \in {"Easy", "Medium", "Hard"}
            /\ easy => suggestedDifficulty = "Easy"
            /\ (~easy /\ medium) => suggestedDifficulty = "Medium"
            /\ (~easy /\ ~medium /\ hard) => suggestedDifficulty = "Hard"
            /\ (~easy /\ ~medium /\ ~hard) => suggestedDifficulty = "Medium"

\* frustration 75, stress 85, confidence 90 gives Easy
C7_Witness ==
    /\ phase = "adjusted"
    /\ frustration = Pct(75)
    /\ stress = Pct(85)
    /\ confidence = Pct(90)
    /\ suggestedDifficulty = "Easy"

\* C8: after an appended activity has been processed, handler and
\* recomputation, frustration > 60 or stress > 70 makes the active message a
\* break message, whatever message the handler itself triggered.
C8_BreakOverridesEvent ==
    (lastStep.op = "simulateActivity" /\ (frustration > Pct(60) \/ stress > Pct(70))) =>
        MessageType = "break"

\* the third wrong answer in a row triggers the motivation message, and the
\* recomputed frustration of 65 replaces it
C8_Witness ==
    /\ lastStep.op = "simulateActivity"
    /\ lastStep.event = "motivation"
    /\ frustration = Pct(65)
    /\ MessageType = "break"

\* C9: consecutiveWrong is the number of incorrect answers since the most
\* recent correct one (hints and retries leave it alone), and wrong, wrong,
\* correct, wrong ends at 1 without the handler's motivation message at any
\* of its four steps.
C9_ConsecutiveWrongCounter ==
    /\ consecutiveWrong = WrongSinceCorrect(activityLog)
    /\ Kinds(activityLog) = <<"w", "w", "c", "w">> => consecutiveWrong = 1
    /\ Kinds(activityLog) \in {<<"w">>, <<"w", "w">>, <<"w", "w", "c">>,
                                <<"w", "w", "c", "w">>}
           => lastStep.event # "motivation"

C9_Witness ==
    /\ Kinds(activityLog) = <<"w", "w", "c", "w">>
    /\ consecutiveWrong = 1
    /\ lastStep.op = "simulateActivity"

\* C10: engagement is 100 for an empty log, and otherwise max(0, 100 - 40 if
\* the most recent activity is more than 180 s old - 8 per hint request among
\* the last 10 activities).
C10_EngagementScore ==
    phase = "mounted" =>
        engagement =
            Pct(IF activityLog = <<>> THEN 100
                ELSE Max(0, 100
                            - (IF now - activityLog[Len(activityLog)].timestamp > 180
                               THEN 40 ELSE 0)
                            - 8 * HintsInLastTen(activityLog)))

\* one activity, 200 seconds old: 60
C10_Witness ==
    /\ phase = "mounted"
    /\ Len(activityLog) = 1
    /\ now - activityLog[1].timestamp = 200
    /\ engagement = Pct(60)

\* C11: every step leaves the activity log unchanged or extends it by
\* exactly one activity at its end; nothing recorded is modified, reordered
\* or removed.
C11_AppendOnlyLog ==
    [][\/ activityLog' = activityLog
       \/ /\ Len(activityLog') = Len(activityLog) + 1
          /\ SubSeq(activityLog', 1, Len(activityLog)) = activityLog]_vars

\* a log of two different activities, still there after a dismissal
C11_Witness ==
    /\ Len(activityLog) = 2
    /\ activityLog[1] # activityLog[2]
    /\ lastStep.op = "dismissMessage"

\* C12: whenever the state is re-evaluated more than 45 minutes into the
\* session, the break-suggestion flag is raised, whatever frustration and
\* stress are.
C12_BreakAfter45Minutes ==
    (lastStep.op = "simulateActivity" /\ now - sessionStartTime > 45 * 60) =>
        showBreakSuggestion

\* C13: dismissMessage leaves no message active and changes none of the four
\* scores, the log, the suggested difficulty and consecutiveWrong.
C13_DismissFrame ==
    [][lastStep'.op = "dismissMessage" =>
          /\ currentMessage' = <<>>
          /\ emotionalState' = emotionalState
          /\ activityLog' = activityLog
          /\ suggestedDifficulty' = suggestedDifficulty
          /\ consecutiveWrong' = consecutiveWrong]_vars

\* a dismissal after a wrong answer, with a difficulty other than the default
C13_Witness ==
    /\ lastStep.op = "dismissMessage"
    /\ currentMessage = <<>>
    /\ consecutiveWrong > 0
    /\ suggestedDifficulty # "Medium"

\* the category a step triggered last: the effect's rule if one fired (it
\* runs after the handler), else the handler's event, else "none"
TriggeredBy(step) == IF step.policy # "none" THEN step.policy ELSE step.event

\* after a step, the message is the one of the step's last trigger, or, the
\* step having triggered nothing, the message of before
TracksLastTrigger ==
    IF TriggeredBy(lastStep') # "none"
    THEN currentMessage' = <<[type |-> TriggeredBy(lastStep'), origin |-> "generated"]>>
    ELSE currentMessage' = currentMessage

\* C14, as stated: an active message is always the one of the most recently
\* triggered policy rule or event, never a message of another origin or of
\* an older trigger.
C14_OnlyTriggeredMessages ==
    [][currentMessage' # <<>> =>
          /\ currentMessage'[1].origin = "generated"
          /\ TracksLastTrigger]_vars

\* C14, amended: an active message generated by a policy rule or an event is
\* the one of the most recently triggered rule or event; the greeting of the
\* lastResult effect and the acknowledgement of takeBreak are displayed too.
C14_GeneratedMessageTracksTrigger ==
    [][(currentMessage' # <<>> /\ currentMessage'[1].origin = "generated") =>
          TracksLastTrigger]_vars

\* an answer whose celebration the break rule replaced
C14_Witness ==
    /\ lastStep.event = "celebration"
    /\ lastStep.policy = "break"
    /\ currentMessage = <<[type |-> "break", origin |-> "generated"]>>

\* a question_answered activity without a value of isCorrect
InvalidActivity(a) == a.activityType = "question_answered" /\ a.isCorrect = <<>>

\* C15: a question_answered activity without isCorrect is rejected at the
\* boundary: it never enters the log, and so is never counted as a wrong
\* answer by the frustration score or by the counter of wrong answers.
C15_InvalidActivityRejected ==
    /\ \A i \in DOMAIN activityLog : ~InvalidActivity(activityLog[i])
    /\ (\A i \in DOMAIN activityLog : ~IsWrong(activityLog[i]))
           => consecutiveWrong = 0
    /\ (phase = "mounted" /\ Len(activityLog) <= 10)
           => frustration =
                  Pct(Min(100, 15 * Len(SelectSeq(activityLog, IsWrong))
                               + 10 * Len(SelectSeq(activityLog,
                                     LAMBDA a : a.activityType = "retry"))))

\* C16: seeded from an assessment with no question, the frustration seed is
\* 0 and each of the four seeded scores is a number in [0, 100].
C16_ZeroQuestionSeed ==
    (phase = "rendered" /\ lastResult # NoResult /\ lastResult[1].totalQuestions = 0)
        => /\ frustration = Pct(0)
           /\ InRange(stress)
           /\ InRange(engagement)
           /\ InRange(confidence)

IsInteger(x) == x % Scale = 0

\* C17: in every reachable state each of the four scores is an integer.
C17_IntegerScores ==
    /\ IsInteger(frustration)
    /\ IsInteger(stress)
    /\ IsInteger(engagement)
    /\ IsInteger(confidence)

\* the indices of the last n activities of a log
LastIndices(log, n) == {i \in DOMAIN log : i > Len(log) - n}

RECURSIVE SumOver(_, _)
\* the sum of the timeSpent of the activities at the indices I, none counting 0
SumOver(log, I) ==
    IF I = {} THEN 0
    ELSE LET i == CHOOSE j \in I : TRUE
         IN  (IF log[i].timeSpent = <<>> THEN 0 ELSE log[i].timeSpent[1])
             + SumOver(log, I \ {i})

\* the activities of the last 10 that have a timeSpent
DefinedTimes(log) == {i \in LastIndices(log, 10) : log[i].timeSpent # <<>>}

\* C18: on a log without answers and retries, frustration is the time bonus
\* of 20, applied exactly when the mean timeSpent over the activities of the
\* last 10 that have one exceeds 120 seconds, and not applied if none has.
C18_TimeBonusOverDefinedOnly ==
    phase = "mounted" =>
        frustration =
            (IF /\ DefinedTimes(activityLog) # {}
                /\ SumOver(activityLog, DefinedTimes(activityLog))
                       > 120 * Cardinality(DefinedTimes(activityLog))
             THEN Pct(20) ELSE Pct(0))

\* the activities of the last 5 of difficulty Hard or Expert
HardInLastFive(log) ==
    {i \in LastIndices(log, 5) : log[i].difficultyLevel \in {<<"Hard">>, <<"Expert">>}}

\* more than 3 activities in the last 5, of a mean timeSpent below 30
\* seconds, a missing timeSpent counting 0
Rushing(log) ==
    /\ Cardinality(LastIndices(log, 5)) > 3
    /\ SumOver(log, LastIndices(log, 5)) < 30 * Cardinality(LastIndices(log, 5))

\* C20: stress is min(100, 30 past 45 minutes + 40 past 90 minutes + 10 per
\* Hard or Expert activity of the last 5 + 20 when rushing), rushing being
\* flagged only with more than 3 activities in the window.
C20_StressScore ==
    phase = "mounted" =>
        /\ stress =
               Pct(Min(100,
                       (IF now - sessionStartTime > 45 * 60 THEN 30 ELSE 0)
                       + (IF now - sessionStartTime > 90 * 60 THEN 40 ELSE 0)
                       + 10 * Cardinality(HardInLastFive(activityLog))
                       + (IF Rushing(activityLog) THEN 20 ELSE 0)))
        /\ (Len(activityLog) < 4 /\ HardInLastFive(activityLog) = {})
               => stress \in {Pct(0), Pct(30), Pct(70)}

\* four quick activities past 90 minutes: 30 + 40 + 20
C20_Witness ==
    /\ phase = "mounted"
    /\ Len(activityLog) = 4
    /\ Rushing(activityLog)
    /\ now - sessionStartTime > 90 * 60
    /\ stress = Pct(90)

\* an incorrect answer, a retry, or an activity of more than 120 seconds
IsStruggle(a) ==
    \/ IsWrong(a)
    \/ a.activityType = "retry"
    \/ (a.timeSpent # <<>> /\ a.timeSpent[1] > 120)

\* the frustration score read off the last 10 activities alone
RecentFrustration(log) ==
    LET I == LastIndices(log, 10)
    IN  Min(100,
            15 * Cardinality({i \in I : IsWrong(log[i])})
            + 10 * Cardinality({i \in I : log[i].activityType = "retry"})
            + (IF SumOver(log, I) > 120 * Cardinality(I) THEN 20 ELSE 0))

\* C19: after an append, frustration is a function of the last 10
\* activities alone, whatever came before them, and is 0 once the last 10
\* hold no incorrect answer, no retry and no timeSpent above 120 seconds.
C19_RollingWindowRecency ==
    lastStep.op = "simulateActivity" =>
        /\ frustration = Pct(RecentFrustration(activityLog))
        /\ (\A i \in LastIndices(activityLog, 10) : ~IsStruggle(activityLog[i]))
               => frustration = Pct(0)

\* a struggle that has left the window of a recovered session
C19_Witness ==
    /\ lastStep.op = "simulateActivity"
    /\ Len(activityLog) > 10
    /\ IsStruggle(activityLog[1])
    /\ \A i \in LastIndices(activityLog, 10) : ~IsStruggle(activityLog[i])
    /\ frustration = Pct(0)

\* C21: the handler triggers its motivation message exactly on an incorrect
\* answer that found the counter at 2 or more, that is on the 3rd and every
\* later miss since the last correct answer; never on the 1st or 2nd miss, on
\* a correct answer, a hint or a retry.
C21_EventTriggeredMotivation ==
    lastStep.op = "simulateActivity" =>
        (lastStep.event = "motivation"
            <=> /\ IsWrong(activityLog[Len(activityLog)])
                /\ consecutiveWrong - 1 >= 2
                /\ WrongSinceCorrect(activityLog) >= 3)

\* the 3rd miss in a row
C21_Witness ==
    /\ lastStep.op = "simulateActivity"
    /\ lastStep.event = "motivation"
    /\ Kinds(activityLog) = <<"w", "w", "w">>
    /\ consecutiveWrong = 3

\* C22: the break-suggestion flag is true only if the current emotional
\* state has frustration > 60 or stress > 70.
C22_BreakFlagFollowsState ==
    showBreakSuggestion => (frustration > Pct(60) \/ stress > Pct(70))

Recomputed == lastStep.op \in {"mount", "simulateActivity"}

\* C24: after a recomputation the suggested difficulty is Hard exactly when
\* confidence > 80 and frustration < 30, which is frustration < 30 and
\* frustration + stress < 40; in such a state neither the Easy rule nor the
\* first Medium rule matches.
C24_HardNeverPreempted ==
    Recomputed =>
        LET hard == confidence > Pct(80) /\ frustration < Pct(30)
        IN  /\ suggestedDifficulty = "Hard" <=> hard
            /\ hard <=> (frustration < Pct(30) /\ frustration + stress < Pct(40))
            /\ hard => /\ ~(frustration > Pct(70) \/ stress > Pct(80))
                       /\ ~(frustration > Pct(50) \/ stress > Pct(60))

\* a wrong and a correct answer to two Hard questions: 15 and 20
C24_Witness ==
    /\ lastStep.op = "simulateActivity"
    /\ frustration = Pct(15)
    /\ stress = Pct(20)
    /\ suggestedDifficulty = "Hard"

\* C25: after a recomputation that sets the suggested difficulty to Easy,
\* the break flag is true and the active message is a break message.
C25_EasyImpliesBreak ==
    (Recomputed /\ suggestedDifficulty = "Easy") =>
        /\ showBreakSuggestion
        /\ MessageType = "break"

\* five wrong answers in a row: 75
C25_Witness ==
    /\ lastStep.op = "simulateActivity"
    /\ frustration = Pct(75)
    /\ suggestedDifficulty = "Easy"
    /\ showBreakSuggestion
    /\ MessageType = "break"

\* C26: when the three most recent activities are incorrect answers, the
\* recomputed frustration is at least 45, a policy rule fires, and the
\* message after the recomputation is a motivation or a break message.
C26_ThreeMissesPolicyMessage ==
    (/\ lastStep.op = "simulateActivity"
     /\ Len(activityLog) >= 3
     /\ \A i \in LastIndices(activityLog, 3) : IsWrong(activityLog[i]))
        => /\ frustration >= Pct(45)
           /\ lastStep.policy \in {"motivation", "break"}
           /\ MessageType = lastStep.policy

\* a correct answer, then three misses in 30 seconds each: 45, motivation
C26_Witness ==
    /\ lastStep.op = "simulateActivity"
    /\ Kinds(activityLog) = <<"c", "w", "w", "w">>
    /\ frustration = Pct(45)
    /\ lastStep.policy = "motivation"
    /\ MessageType = "motivation"

SnapshotOf(log, elapsed) ==
    LET f == Pct(RecentFrustration(log))
        s == Pct(Min(100, (IF elapsed > 45 * 60 THEN 30 ELSE 0)
                          + (IF elapsed > 90 * 60 THEN 40 ELSE 0)
                          + 10 * Cardinality(HardInLastFive(log))
                          + (IF Rushing(log) THEN 20 ELSE 0)))
    IN  [frustrationLevel |-> f, stressLevel |-> s,
         engagementLevel |-> Pct(Max(0, 100 - 8 * HintsInLastTen(log))),
         confidenceLevel |-> Max(0, Pct(100) - (f + s) \div 2)]

\* the difficulty suggested for a snapshot
DifficultyOf(st) ==
    IF st.frustrationLevel > Pct(70) \/ st.stressLevel > Pct(80) THEN "Easy"
    ELSE IF st.frustrationLevel > Pct(50) \/ st.stressLevel > Pct(60) THEN "Medium"
    ELSE IF st.confidenceLevel > Pct(80) /\ st.frustrationLevel < Pct(30) THEN "Hard"
    ELSE "Medium"

\* C28: after every appended activity the emotional state and the suggested
\* difficulty are a function of the log and the elapsed time alone, the same
\* with any prior assessment and with none.
C28_SeedIndependence ==
    lastStep.op = "simulateActivity" =>
        /\ emotionalState = SnapshotOf(activityLog, now - sessionStartTime)
        /\ suggestedDifficulty =
               DifficultyOf(SnapshotOf(activityLog, now - sessionStartTime))

\* seeded with a confidence of 50, and at 95 after one correct answer
C28_Witness ==
    /\ lastStep.op = "simulateActivity"
    /\ lastResult # NoResult
    /\ getInitialEmotionalState(lastResult).confidenceLevel = Pct(50)
    /\ Len(activityLog) = 1
    /\ confidence = Pct(95)

\* C29: recognition.start() is invoked only while the engine is idle, and
\* isCurrentlyListening() is false only when the engine is not running.
C29_StartOnlyWhenIdle ==
    /\ lastCall.startedOn \in {"none", "idle"}
    /\ ~isListening => engine # "running"

\* C30: no call sends a request to the AI API within 30 seconds of a failure
\* with status 429; in that window getCooldownRemaining() is above 0, and
\* from its end on it is 0.
C30_RateLimitCooldown ==
    /\ ~(lastCall.sent /\ lastCall.rateLimited)
    /\ (rateLimitedAt # <<>> /\ now - rateLimitedAt[1] < 30) =>
           getCooldownRemaining > 0
    /\ (rateLimitedAt # <<>> /\ now - rateLimitedAt[1] >= 30) =>
           getCooldownRemaining = 0

====
